---- MODULE Spec2Model ----
(***************************************************************************)
(* A model of oslo.log's log.py: the logger registry (getLogger), the      *)
(* deprecation tracker (ContextAdapter.deprecated), record enrichment      *)
(* (ContextAdapter.process), log path resolution (_get_log_file_path) and  *)
(* the sink configurator (_setup_logging_from_conf, setup).                *)
(*                                                                         *)
(* Python values that may be None are modelled as options: None is the     *)
(* empty tuple and a present value v is the one-element tuple <<v>>.       *)
(***************************************************************************)
EXTENDS Integers, Sequences, FiniteSets, TLC

\* ---------------------------------------------------------------- bounds

\* Number of threads of control calling into the module concurrently.
NThreads == 2

\* Number of deprecated(...) calls followed in one behaviour.
MaxCalls == 3

\* Number of setup calls followed in one behaviour.
MaxRuns == 2

\* Number of lazy proxies constructed in one behaviour.
MaxProxies == 2

\* ------------------------------------------------------- option values

None == <<>>

Some(v) == <<v>>

\* Python truthiness of an optional string: None and '' are false.
Truthy(o) == o /= None /\ o[1] /= ""

\* The empty dict.
EmptyDict == <<>>

\* dict.get(key, default)
Get(d, k, default) == IF k \in DOMAIN d THEN d[k] ELSE default

\* d[k] = v
Put(d, k, v) == [x \in DOMAIN d \cup {k} |-> IF x = k THEN v ELSE d[x]]

\* dict.update(other): the keys of other override those of d.
Update(d, other) ==
    [x \in DOMAIN d \cup DOMAIN other |-> IF x \in DOMAIN other THEN other[x] ELSE d[x]]

\* dict.pop(key, ...): the mapping left once key is removed.
Without(d, k) == [x \in DOMAIN d \ {k} |-> d[x]]

\* ------------------------------------------------------------- domains

Threads == 1..NThreads

\* Logical logger names; getLogger(None) names the root logger.
Names == {None, Some("svc"), Some("api"), Some("unknown")}

Versions == {"unknown", "1.0"}

\* The names the concurrent callers race on.
ConcNames == {Some("svc"), Some("api")}

\* Deprecation message templates and positional-argument tuples.
Msgs == {"%s is deprecated", "%s will be removed"}

ArgTuples == {<<"opt_a">>, <<"opt_b">>}

\* Values of conf.log_file: unset, empty, a relative and an absolute name.
LogFiles == {None, Some(<<>>), Some(<<"a", ".", "l">>),
             Some(<<"/", "t", "/", "a">>)}

\* Values of conf.log_dir: unset, empty, with and without a trailing slash.
LogDirs == {None, Some(<<>>),
            Some(<<"/", "v", "a", "r", "/", "l", "o", "g", "/", "a", "p", "p">>),
            Some(<<"/", "d", "/">>)}

\* Values of the binary argument and of the running program's name.
Binaries == {None, Some(<<>>), Some(<<"w", "o", "r", "k", "e", "r">>)}

BinaryNames == {<<"w", "o", "r", "k", "e", "r">>, <<"a", "p", "i">>}

\* Request contexts, by name, and the mapping each projects to.
Contexts == {"ctx_user", "ctx_instance"}

ContextFields ==
    [c \in Contexts |->
        IF c = "ctx_user"
        THEN Put(Put(Put(EmptyDict, "user_identity", Some("alice")),
                     "project", Some("other")), "version", Some("0.0"))
        ELSE Put(Put(EmptyDict, "request_id", Some("req-1")),
                 "instance_uuid", Some("uuid-ctx"))]

\* The mapping a caller passes as extra, when it passes one.
CallerExtras ==
    {EmptyDict,
     Put(EmptyDict, "instance_uuid", Some("uuid-extra")),
     Put(EmptyDict, "user_identity", Some("carol")),
     Put(Put(EmptyDict, "project", Some("spoof")), "version", Some("9.9"))}

\* The keyword dicts of a call, the extra key aside.
KeywordDicts ==
    {kw \in UNION {[keys -> {None, Some(""), Some("uuid-1"), Some("uuid-kw"),
                            Some("ctx_user"), Some("ctx_instance"),
                            Some("bob")}] :
                   keys \in SUBSET {"context", "instance", "instance_uuid",
                                    "user_identity"}} :
        /\ "context" \in DOMAIN kw =>
               kw["context"] \in {None, Some("ctx_user"), Some("ctx_instance")}
        /\ "instance" \in DOMAIN kw => kw["instance"] \in {Some(""), Some("uuid-1")}
        /\ "instance_uuid" \in DOMAIN kw => kw["instance_uuid"] = Some("uuid-kw")
        /\ "user_identity" \in DOMAIN kw => kw["user_identity"] = Some("bob")}

\* The default of both instance templates: '[instance: %(uuid)s] '.
DefaultTemplate == [before |-> "[instance: ", after |-> "] "]

\* Values of ctx._config's two instance templates.
Configs ==
    {[instance_format |-> DefaultTemplate, instance_uuid_format |-> DefaultTemplate],
     [instance_format |-> [before |-> "[instance: ", after |-> "] "],
      instance_uuid_format |-> [before |-> "[uuid: ", after |-> "] "]]}

VARIABLES
    _loggers,           \* the registry: name -> handle (index into adapters)
    adapters,           \* every ContextAdapter constructed so far, by identity
    frame,              \* per thread: the getLogger call it is executing
    returned,           \* history: [name, version, handle] of every completed getLogger call
    fatal_deprecations, \* ctx._config.fatal_deprecations
    depCalls,           \* history: what each deprecated(...) call did
    depFrame,           \* per thread: the deprecated call it is executing
    pathCall,           \* a call of _get_log_file_path: arguments, position, result
    handlers,           \* the root logger's handler list, in order
    rootLevel,          \* the root logger's severity threshold
    moduleLevels,       \* thresholds of the named loggers of the runtime
    rootLog,            \* what the last setup call logged on the root logger
    excepthook,         \* sys.excepthook: the product it logs for, if installed
    cfgRuns,            \* history: the setup calls made so far
    lastRun,            \* the conf of the configurator run that ended last and
                        \* the answers its collaborators gave, if it ran
    store,              \* _local.store.context of each thread, if any
    _config,            \* ctx._config: the instance format templates
    dicts,              \* the dict objects callers and process share, by name
    procCall,           \* a call of process: arguments (extraIn: the caller's
                        \* extra dict as passed), position, result
    lazies,             \* every LazyAdapter constructed so far, by identity
    lazyCalls           \* history: the log calls made through proxies

regVars == <<_loggers, adapters, frame, returned>>

depVars == <<fatal_deprecations, depCalls, depFrame>>

pathVars == <<pathCall>>

cfgVars ==
    <<handlers, rootLevel, moduleLevels, rootLog, excepthook, cfgRuns, lastRun>>

vars == <<_loggers, adapters, frame, returned, fatal_deprecations, depCalls,
         depFrame,
         pathCall, handlers, rootLevel, moduleLevels, rootLog, excepthook,
         cfgRuns, lastRun, store, _config, dicts, procCall, lazies, lazyCalls>>

procVars == <<store, _config, dicts, procCall>>

lazyVars == <<lazies, lazyCalls>>

\* ------------------------------------------------------------ registry

\* ContextAdapter.__init__: project, version and an empty de-duplication table.
ContextAdapter(project_name, version_string) ==
    [project |-> project_name, version |-> version_string,
     sent |-> EmptyDict]

\* A faulty absence test: the entry is taken to be missing on every call.
AbsentAlways(name) == TRUE

\* `name not in _loggers`
Absent(name) == name \notin DOMAIN _loggers

IdleFrame == [pc |-> "idle", name |-> None, version |-> "unknown"]

\* getLogger run to completion by one caller with nothing interleaved.
getLogger(name, version) ==
    LET create == Absent(name)
        heap == IF create
                THEN Append(adapters, ContextAdapter(name, version))
                ELSE adapters
        reg == IF create THEN Put(_loggers, name, Len(heap)) ELSE _loggers
    IN /\ adapters' = heap
       /\ _loggers' = reg
       /\ returned' = returned \cup
                        {[name |-> name, version |-> version, handle |-> reg[name]]}
       /\ UNCHANGED frame

\* Thread t enters getLogger and evaluates `name not in _loggers`.
getLoggerCheck(t, name, version) ==
    /\ frame[t].pc = "idle"
    /\ frame' = [frame EXCEPT ![t] =
                    [pc |-> IF Absent(name) THEN "create" ELSE "return",
                     name |-> name, version |-> version]]
    /\ UNCHANGED <<_loggers, adapters, returned>>

\* Thread t constructs a ContextAdapter and stores it under the name.
getLoggerCreate(t) ==
    /\ frame[t].pc = "create"
    /\ adapters' = Append(adapters,
                          ContextAdapter(frame[t].name, frame[t].version))
    /\ _loggers' = Put(_loggers, frame[t].name, Len(adapters) + 1)
    /\ frame' = [frame EXCEPT ![t].pc = "return"]
    /\ UNCHANGED returned

\* Thread t evaluates `return _loggers[name]`.
getLoggerReturn(t) ==
    /\ frame[t].pc = "return"
    /\ returned' = returned \cup
                     {[name |-> frame[t].name, version |-> frame[t].version,
                       handle |-> _loggers[frame[t].name]]}
    /\ frame' = [frame EXCEPT ![t] = IdleFrame]
    /\ UNCHANGED <<_loggers, adapters>>

\* -------------------------------------------------------- lazy proxies

\* LazyAdapter.__init__: no logger yet, a dict of its own as extra (extra
\* names the dict object), the name and the version. lookups counts the
\* getLogger calls the proxy has made, uses the operations invoked on it and
\* used collects the handles those operations were delegated to.
LazyAdapter(name, version, extra) ==
    [_logger |-> None, extra |-> extra, name |-> name, version |-> version,
     lookups |-> 0, uses |-> 0, used |-> {}]

\* getLazyLogger(name, version): constructs the proxy and nothing else.
getLazyLogger(name, version) ==
    /\ Len(lazies) < MaxProxies
    /\ \E ref \in {"lazy_extra_" \o ToString(Len(lazies) + 1)} :
          /\ lazies' = Append(lazies, LazyAdapter(name, version, ref))
          /\ dicts' = Put(dicts, ref, EmptyDict)
    /\ UNCHANGED <<regVars, store, _config, procCall, lazyCalls>>

\* A faulty test: the proxy never takes its logger as resolved.
ResolvedNever(proxy) == FALSE

\* `self._logger` as a condition: whether the proxy holds a handle.
Resolved(proxy) == proxy._logger /= None

\* The logger property of proxy p is read for an operation: the first time
\* it stores what getLogger(self.name, self.version) returns, and every time
\* the operation is delegated to the stored handle.
ReadLogger(p) ==
    /\ IF Resolved(lazies[p])
       THEN /\ lazies' = [lazies EXCEPT
                             ![p].uses = @ + 1,
                             ![p].used = @ \cup {lazies[p]._logger[1]}]
            /\ UNCHANGED regVars
       ELSE /\ getLogger(lazies[p].name, lazies[p].version)
            /\ lazies' = [lazies EXCEPT
                             ![p]._logger = Some(_loggers'[lazies[p].name]),
                             ![p].lookups = @ + 1,
                             ![p].uses = @ + 1,
                             ![p].used = @ \cup {_loggers'[lazies[p].name]}]

\* An operation other than a log call (handlers, isEnabledFor) on proxy p.
logger(p) ==
    /\ lazies[p].uses < MaxCalls
    /\ ReadLogger(p)
    /\ UNCHANGED <<procVars, lazyCalls>>

\* -------------------------------------------------- deprecation tracker

\* register_options(conf): ctx._config becomes conf, whose fatal_deprecations
\* option is the policy read by every later deprecated(...) call.
register_options(fatal) ==
    /\ fatal_deprecations' = fatal
    /\ fatal_deprecations /= fatal
    /\ UNCHANGED <<regVars, depCalls, depFrame>>

\* A faulty containment test: any earlier warning for the template suppresses.
AlreadySentAnyArgs(sent_args, args) == Len(sent_args) > 0

\* `args in sent_args`: linear search of the list by value equality.
AlreadySent(sent_args, args) ==
    \E i \in 1..Len(sent_args) : sent_args[i] = args

\* A faulty ordering: the suppression test is made before the policy test.
deprecatedResultDedupFirst(fatal, sent_args, args) ==
    IF AlreadySent(sent_args, args)
    THEN [level |-> "NONE", outcome |-> "returned", sent_args |-> sent_args]
    ELSE IF fatal
    THEN [level |-> "CRITICAL", outcome |-> "DeprecatedConfig",
          sent_args |-> sent_args]
    ELSE [level |-> "WARNING", outcome |-> "returned",
          sent_args |-> Append(sent_args, args)]

\* The body of deprecated: the severity it logs at (NONE: nothing is logged),
\* how the call ends, and the list of argument tuples recorded for the template.
deprecatedResult(fatal, sent_args, args) ==
    IF fatal
    THEN [level |-> "CRITICAL", outcome |-> "DeprecatedConfig",
          sent_args |-> sent_args]
    ELSE IF AlreadySent(sent_args, args)
    THEN [level |-> "NONE", outcome |-> "returned", sent_args |-> sent_args]
    ELSE [level |-> "WARNING", outcome |-> "returned",
          sent_args |-> Append(sent_args, args)]

\* A faulty deprecated: the call records its argument tuple before it looks
\* at the policy.
deprecatedRecordingFirst(h, msg, args) ==
    /\ Len(depCalls) < MaxCalls
    /\ LET table == adapters[h].sent
           r == deprecatedResult(fatal_deprecations, Get(table, msg, <<>>), args)
       IN /\ adapters' = [adapters EXCEPT ![h].sent =
                             IF fatal_deprecations
                             THEN Put(table, msg,
                                      Append(Get(table, msg, <<>>), args))
                             ELSE Put(table, msg, r.sent_args)]
          /\ depCalls' = Append(depCalls,
                                [handle |-> h, msg |-> msg, args |-> args,
                                 fatal |-> fatal_deprecations,
                                 level |-> r.level, outcome |-> r.outcome])
    /\ UNCHANGED <<_loggers, frame, returned, fatal_deprecations, depFrame>>

\* handle.deprecated(msg, *args) run to completion.
deprecated(h, msg, args) ==
    /\ Len(depCalls) < MaxCalls
    /\ LET table == adapters[h].sent
           \* setdefault(msg, list()) is reached only when the policy is off
           r == deprecatedResult(fatal_deprecations, Get(table, msg, <<>>), args)
       IN /\ adapters' = [adapters EXCEPT ![h].sent =
                             IF fatal_deprecations THEN table
                             ELSE Put(table, msg, r.sent_args)]
          /\ depCalls' = Append(depCalls,
                                [handle |-> h, msg |-> msg, args |-> args,
                                 fatal |-> fatal_deprecations,
                                 level |-> r.level, outcome |-> r.outcome])
    /\ UNCHANGED <<_loggers, frame, returned, fatal_deprecations, depFrame>>

\* No deprecated call in progress. seen remembers whether the argument
\* tuple was in the template's list when the call got hold of the list.
IdleCall ==
    [pc |-> "idle", handle |-> 0, msg |-> "", args |-> <<>>, seen |-> FALSE]

\* The deprecated calls begun so far, completed or not.
Begun == Len(depCalls) + Cardinality({t \in Threads : depFrame[t].pc /= "idle"})

\* A faulty append: the argument tuple is not recorded.
RecordNothing(sent_args, args) == sent_args

\* sent_args.append(args)
Record(sent_args, args) == Append(sent_args, args)

\* Thread t enters handle.deprecated(msg, *args): under the fatal policy it
\* logs at critical severity and raises; otherwise it gets hold of the
\* template's list with setdefault(msg, list()).
deprecatedEnter(t, h, msg, args) ==
    /\ depFrame[t].pc = "idle"
    /\ Begun < MaxCalls
    /\ IF fatal_deprecations
       THEN /\ depCalls' = Append(depCalls,
                                  [handle |-> h, msg |-> msg, args |-> args,
                                   fatal |-> TRUE, level |-> "CRITICAL",
                                   outcome |-> "DeprecatedConfig"])
            /\ UNCHANGED <<adapters, depFrame>>
       ELSE /\ adapters' = [adapters EXCEPT ![h].sent =
                               Put(@, msg, Get(@, msg, <<>>))]
            /\ depFrame' = [depFrame EXCEPT ![t] =
                               [pc |-> "check", handle |-> h, msg |-> msg,
                                args |-> args,
                                seen |-> AlreadySent(Get(adapters[h].sent, msg,
                                                         <<>>), args)]]
            /\ UNCHANGED depCalls
    /\ UNCHANGED <<_loggers, frame, returned, fatal_deprecations>>

\* Thread t evaluates `if args in sent_args: return`.
deprecatedCheck(t) ==
    /\ depFrame[t].pc = "check"
    /\ LET call == depFrame[t]
       IN IF AlreadySent(adapters[call.handle].sent[call.msg], call.args)
          THEN /\ depCalls' = Append(depCalls,
                                     [handle |-> call.handle, msg |-> call.msg,
                                      args |-> call.args, fatal |-> FALSE,
                                      level |-> "NONE", outcome |-> "returned"])
               /\ depFrame' = [depFrame EXCEPT ![t] = IdleCall]
          ELSE /\ depFrame' = [depFrame EXCEPT ![t].pc = "append"]
               /\ UNCHANGED depCalls
    /\ UNCHANGED <<regVars, fatal_deprecations>>

\* Thread t evaluates `sent_args.append(args)`.
deprecatedAppend(t) ==
    /\ depFrame[t].pc = "append"
    /\ LET call == depFrame[t]
       IN adapters' = [adapters EXCEPT ![call.handle].sent[call.msg] =
                          Record(@, call.args)]
    /\ depFrame' = [depFrame EXCEPT ![t].pc = "warn"]
    /\ UNCHANGED <<_loggers, frame, returned, fatal_deprecations, depCalls>>

\* Thread t evaluates `self.warn(stdmsg, *args, **kwargs)` and returns.
deprecatedWarn(t) ==
    /\ depFrame[t].pc = "warn"
    /\ LET call == depFrame[t]
       IN depCalls' = Append(depCalls,
                             [handle |-> call.handle, msg |-> call.msg,
                              args |-> call.args, fatal |-> FALSE,
                              level |-> "WARNING", outcome |-> "returned"])
    /\ depFrame' = [depFrame EXCEPT ![t] = IdleCall]
    /\ UNCHANGED <<regVars, fatal_deprecations>>

\* ------------------------------------------------- log path resolution

\* Strings that are inspected character by character (paths) are modelled
\* as sequences of one-character strings.

StartsWithSlash(s) == Len(s) > 0 /\ s[1] = "/"

EndsWithSlash(s) == Len(s) > 0 /\ s[Len(s)] = "/"

\* os.path.join(a, b) on a POSIX system.
PathJoin(a, b) ==
    IF StartsWithSlash(b) THEN b
    ELSE IF a = <<>> \/ EndsWithSlash(a) THEN a \o b
    ELSE a \o <<"/">> \o b

\* Python truthiness of an optional character string.
TruthyStr(o) == o /= None /\ o[1] /= <<>>

DotLog == <<".", "l", "o", "g">>

\* A faulty resolution: a configured directory always wins over the file.
_get_log_file_path_dir_first(logfile, logdir, binary, binary_name) ==
    IF TruthyStr(logdir)
    THEN Some(PathJoin(logdir[1],
                       IF TruthyStr(binary) THEN binary[1] ELSE binary_name)
              \o DotLog)
    ELSE IF TruthyStr(logfile) THEN logfile
    ELSE None

\* _get_log_file_path(conf, binary): logfile and logdir are conf.log_file and
\* conf.log_dir; binary_name is what handlers._get_binary_name() returns.
_get_log_file_path(logfile, logdir, binary, binary_name) ==
    IF TruthyStr(logfile) /\ ~TruthyStr(logdir) THEN logfile
    ELSE IF TruthyStr(logfile) /\ TruthyStr(logdir)
    THEN Some(PathJoin(logdir[1], logfile[1]))
    ELSE IF TruthyStr(logdir)
    THEN Some(PathJoin(logdir[1],
                       IF TruthyStr(binary) THEN binary[1] ELSE binary_name)
              \o DotLog)
    ELSE None

\* A caller evaluates _get_log_file_path on the arguments it holds.
ResolvePath ==
    /\ pathCall.pc = "call"
    /\ pathCall' = [pathCall EXCEPT
                       !.pc = "done",
                       !.result = _get_log_file_path(pathCall.logfile,
                                                     pathCall.logdir,
                                                     pathCall.binary,
                                                     pathCall.binary_name)]
    /\ UNCHANGED <<regVars, depVars, cfgVars, procVars, lazyVars>>

\* ---------------------------------------------------- sink configurator

NoFormatter == [cls |-> "none", fmt |-> None, project |-> None, version |-> ""]

\* A handler object as constructed, before any formatter is set. fresh marks
\* the handlers constructed by the configurator run that ended last.
Handler(kind, path, stream, level) ==
    [kind |-> kind, path |-> path, stream |-> stream, level |-> level,
     formatter |-> NoFormatter, fresh |-> TRUE]

\* Handlers that were attached before the run that now starts.
Aged(hs) == [i \in 1..Len(hs) |-> [hs[i] EXCEPT !.fresh = FALSE]]

\* list.remove of the element found at position i.
RemoveAt(hs, i) == [k \in 1..(Len(hs) - 1) |-> IF k < i THEN hs[k] ELSE hs[k + 1]]

\* A faulty detach step: nothing is detached.
RemoveNothing(hs, i) == hs

\* `for handler in log_root.handlers: log_root.removeHandler(handler)`:
\* the list iterator is at position i of the list the body shrinks.
RECURSIVE RemoveHandlersLoop(_, _)
RemoveHandlersLoop(hs, i) ==
    IF i > Len(hs) THEN hs
    ELSE RemoveHandlersLoop(RemoveAt(hs, i), i + 1)

\* A faulty console choice: the stdout sink is attached whenever stderr is off.
ConsoleAlways(hs, use_stderr, logpath) ==
    IF use_stderr
    THEN Append(hs, Handler("ColorHandler", None, "stderr", "NOTSET"))
    ELSE Append(hs, Handler("StreamHandler", None, "stdout", "NOTSET"))

\* if conf.use_stderr: ColorHandler() / elif not logpath: StreamHandler(sys.stdout)
AttachConsole(hs, use_stderr, logpath) ==
    IF use_stderr
    THEN Append(hs, Handler("ColorHandler", None, "stderr", "NOTSET"))
    ELSE IF ~TruthyStr(logpath)
    THEN Append(hs, Handler("StreamHandler", None, "stdout", "NOTSET"))
    ELSE hs

\* if logpath: WatchedFileHandler(logpath)
AttachFile(hs, logpath) ==
    IF TruthyStr(logpath)
    THEN Append(hs, Handler("WatchedFileHandler", logpath, "", "NOTSET"))
    ELSE hs

\* The formatter the loop sets on every handler attached at that point.
FormatterFor(conf, project, version) ==
    IF TruthyStr(conf.log_format)
    THEN [cls |-> "Formatter", fmt |-> conf.log_format, project |-> None,
          version |-> ""]
    ELSE [cls |-> "ContextFormatter", fmt |-> None, project |-> project,
          version |-> version]

\* `for handler in log_root.handlers: handler.setFormatter(...)`
SetFormatters(hs, conf, project, version) ==
    [i \in 1..Len(hs) |->
        [hs[i] EXCEPT !.formatter = FormatterFor(conf, project, version)]]

\* One log_root.info(...) call per handler visited while log_format is set.
FormatNotices(hs, conf) ==
    IF TruthyStr(conf.log_format)
    THEN [i \in 1..Len(hs) |-> "INFO log_format deprecated"]
    ELSE <<>>

\* debug > verbose > default
RootLevel(conf) ==
    IF conf.debug THEN "DEBUG" ELSE IF conf.verbose THEN "INFO" ELSE "WARNING"

\* str.partition('='): the text before the first '=' and the text after it.
RECURSIVE PartitionAt(_, _)
PartitionAt(str, i) ==
    IF i > Len(str) THEN <<str, <<>>>>
    ELSE IF str[i] = "=" THEN <<SubSeq(str, 1, i - 1), SubSeq(str, i + 1, Len(str))>>
    ELSE PartitionAt(str, i + 1)

\* `for pair in conf.default_log_levels`: from pair number i on.
RECURSIVE SetModuleLevels(_, _, _)
SetModuleLevels(levels, pairs, i) ==
    IF i > Len(pairs) THEN levels
    ELSE LET part == PartitionAt(pairs[i], 1)
         IN SetModuleLevels(Put(levels, part[1], part[2]), pairs, i + 1)

\* _setup_logging_from_conf(conf, project, version) from the state in which
\* the root logger has the handlers hs; env tells how the collaborators
\* answer (import of the publisher, facility lookup, syslog socket). The
\* result is the state the run leaves and how it ended; an exception leaves
\* what the earlier steps did.
_setup_logging_from_conf(hs, conf, project, version, env) ==
    LET detached == RemoveHandlersLoop(Aged(hs), 1)
        logpath == _get_log_file_path(conf.log_file, conf.log_dir, None,
                                      env.binary_name)
        withFile == AttachFile(detached, logpath)
        withConsole == AttachConsole(withFile, conf.use_stderr, logpath)
        partial == [handlers |-> withConsole, level |-> rootLevel,
                    moduleLevels |-> moduleLevels, log |-> <<>>,
                    logpath |-> logpath]
    IN IF conf.publish_errors /\ ~env.import_ok
       THEN [partial EXCEPT !.log = <<"raise ImportError">>]
       ELSE
       LET withPublish ==
               IF conf.publish_errors
               THEN Append(withConsole,
                           Handler("PublishErrorsHandler", None, "", "ERROR"))
               ELSE withConsole
           formatted == SetFormatters(withPublish, conf, project, version)
           notices == FormatNotices(withPublish, conf)
           levelled == [partial EXCEPT
                           !.handlers = formatted,
                           !.level = RootLevel(conf),
                           !.moduleLevels = SetModuleLevels(moduleLevels,
                                                conf.default_log_levels, 1),
                           !.log = notices]
       IN IF ~conf.use_syslog THEN levelled
          ELSE IF ~env.facility_ok
          THEN [levelled EXCEPT !.log = Append(notices, "raise TypeError")]
          ELSE IF ~env.socket_ok
          THEN [levelled EXCEPT
                   !.log = Append(notices, "ERROR Unable to add syslog handler")]
          ELSE [levelled EXCEPT
                   !.handlers = Append(formatted,
                       Handler(IF conf.use_syslog_rfc_format
                               THEN "RFCSysLogHandler" ELSE "SysLogHandler",
                               None, "", "NOTSET"))]

\* A faulty reading: a run that logged an error has raised as well.
RaisedOrFailed(log) ==
    /\ Len(log) > 0
    /\ log[Len(log)] \in {"raise ImportError", "raise TypeError",
                          "raise LogConfigError",
                          "ERROR Unable to add syslog handler"}

\* Whether a run's log ends with an exception leaving the function.
Raised(log) ==
    /\ Len(log) > 0
    /\ log[Len(log)] \in {"raise ImportError", "raise TypeError",
                          "raise LogConfigError"}

\* getLogger(None): what the registry and the heap of adapters become.
RootLookup ==
    IF Absent(None)
    THEN [reg |-> Put(_loggers, None, Len(adapters) + 1),
          heap |-> Append(adapters, ContextAdapter(None, "unknown"))]
    ELSE [reg |-> _loggers, heap |-> adapters]

\* setup(conf, product_name, version) with conf.log_config_append unset:
\* the configurator runs, and the uncaught-exception hook is installed when
\* it returns normally.
setup(conf, product_name, version, env) ==
    /\ Len(cfgRuns) < MaxRuns
    /\ \E r \in {_setup_logging_from_conf(handlers, conf, Some(product_name),
                                          version, env)} :
          /\ handlers' = r.handlers
          /\ rootLevel' = r.level
          /\ moduleLevels' = r.moduleLevels
          /\ rootLog' = r.log
          /\ excepthook' = IF Raised(r.log) THEN excepthook
                           ELSE Some(product_name)
          /\ cfgRuns' = Append(cfgRuns,
                               [via |-> "conf", logpath |-> r.logpath,
                                use_stderr |-> conf.use_stderr,
                                raised |-> Raised(r.log)])
          /\ lastRun' = Some([conf |-> conf, env |-> env])
    /\ _loggers' = RootLookup.reg
    /\ adapters' = RootLookup.heap
    /\ returned' = returned \cup
                     {[name |-> None, version |-> "unknown",
                       handle |-> RootLookup.reg[None]]}
    /\ UNCHANGED <<frame, depVars, pathVars, procVars, lazyVars>>

\* setup(conf, ...) with conf.log_config_append set: logging.config.fileConfig
\* either fails (LogConfigError) or rebuilds the root logger's handlers as the
\* file lists them; the configurator does not run.
setupAppend(product_name, file_ok, file_handlers) ==
    /\ Len(cfgRuns) < MaxRuns
    /\ handlers' = IF file_ok THEN file_handlers ELSE handlers
    /\ rootLog' = IF file_ok THEN <<>> ELSE <<"raise LogConfigError">>
    /\ excepthook' = IF file_ok THEN Some(product_name) ELSE excepthook
    /\ cfgRuns' = Append(cfgRuns,
                         [via |-> "append", logpath |-> None,
                          use_stderr |-> FALSE, raised |-> ~file_ok])
    /\ lastRun' = None
    /\ UNCHANGED <<rootLevel, moduleLevels, regVars, depVars, pathVars, procVars, lazyVars>>

\* --------------------------------------------------- record enrichment

\* Dict objects live on a heap and are referred to by name, so that a dict
\* reachable from two places is one object; every dict value is an optional
\* string, a reference being the name of the object referred to.

\* formatters._dictify_context(context): the flat mapping a context projects to.
_dictify_context(context) == ContextFields[context]

\* six.text_type(msg) for a message that is not text already.
Text(msg) == IF msg.type = "unicode" THEN msg
             ELSE [type |-> "unicode", repr |-> msg.repr]

\* template % {'uuid': uuid} for a template with one %(uuid)s placeholder.
Format(template, uuid) == template.before \o uuid \o template.after

\* A faulty precedence: an instance_uuid wins over the instance object.
InstanceExtraUuidFirst(instance, instance_uuid, config) ==
    IF Truthy(instance_uuid)
    THEN Format(config.instance_uuid_format, instance_uuid[1])
    ELSE IF Truthy(instance) THEN Format(config.instance_format, instance[1])
    ELSE ""

\* instance_extra: the instance object is modelled by the uuid it carries.
InstanceExtra(instance, instance_uuid, config) ==
    IF Truthy(instance) THEN Format(config.instance_format, instance[1])
    ELSE IF Truthy(instance_uuid)
    THEN Format(config.instance_uuid_format, instance_uuid[1])
    ELSE ""

\* A faulty binding: values already in the mapping are kept.
BindProjectVersionDefault(extra, adapter) ==
    Update(Put(Put(EmptyDict, "project", adapter.project),
               "version", Some(adapter.version)),
           extra)

\* extra['project'] = self.project; extra['version'] = self.version
BindProjectVersion(extra, adapter) ==
    Put(Put(extra, "project", adapter.project), "version", Some(adapter.version))

\* A faulty store: one slot for the whole process, the first thread's.
CurrentContextProcessWide(explicit, t) ==
    IF explicit = None THEN store[1] ELSE explicit

\* The context process works with: the one popped from kwargs, or else the
\* context attribute of the calling thread's slot of the thread-local store.
CurrentContext(explicit, t) ==
    IF explicit = None THEN store[t] ELSE explicit

\* ContextAdapter.process(msg, kwargs) on adapter h, called by thread t.
\* kwargs is the keyword dict of the call; objs is the heap of dict objects;
\* the result gives the returned message and kwargs and the heap afterwards.
processResult(t, h, msg, kwargs, objs, config) ==
    LET hasExtra == "extra" \in DOMAIN kwargs
        ref == IF hasExtra THEN kwargs["extra"][1] ELSE "new_extra"
        kw1 == IF hasExtra THEN kwargs ELSE Put(kwargs, "extra", Some(ref))
        extra0 == IF hasExtra THEN objs[ref] ELSE EmptyDict
        explicit == Get(kw1, "context", None)
        kw2 == Without(kw1, "context")
        context == CurrentContext(explicit, t)
        extra1 == IF context /= None
                  THEN Update(extra0, _dictify_context(context[1]))
                  ELSE extra0
        instance == Get(kw2, "instance", None)
        kw3 == Without(kw2, "instance")
        fromExtra == Get(extra1, "instance_uuid", None)
        \* `or` evaluates kwargs.pop only when the value in extra is false
        instance_uuid == IF Truthy(fromExtra) THEN fromExtra
                         ELSE Get(kw3, "instance_uuid", None)
        kw4 == IF Truthy(fromExtra) THEN kw3 ELSE Without(kw3, "instance_uuid")
        extra2 == Put(extra1, "instance",
                      Some(InstanceExtra(instance, instance_uuid, config)))
        \* the argument of setdefault is evaluated whether or not it is used
        user_identity == Get(kw4, "user_identity", None)
        kw5 == Without(kw4, "user_identity")
        extra3 == IF "user_identity" \in DOMAIN extra2 THEN extra2
                  ELSE Put(extra2, "user_identity", user_identity)
        extra4 == BindProjectVersion(extra3, adapters[h])
        extra5 == Put(extra4, "extra", Some("snapshot"))
    IN [msg |-> Text(msg),
        kwargs |-> kw5,
        objs |-> Put(Put(objs, "snapshot", extra4), ref, extra5)]

\* A caller's thread runs the process call it has prepared.
process ==
    /\ procCall.pc = "call"
    /\ \E r \in {processResult(procCall.thread, procCall.handle, procCall.msg,
                               procCall.kwargs, dicts, _config)} :
          /\ dicts' = r.objs
          /\ procCall' = [procCall EXCEPT !.pc = "done",
                                          !.retMsg = r.msg,
                                          !.retKwargs = r.kwargs]
    /\ UNCHANGED <<regVars, depVars, pathVars, cfgVars, lazyVars, store, _config>>

\* After the call returned, the caller stores v under key k of the dict it
\* passed as extra; that dict is the object process worked on.
MutateExtra(k, v) ==
    /\ procCall.pc = "done"
    /\ procCall.extraIn /= None
    /\ Get(dicts["caller_extra"], k, None) /= v
    /\ dicts' = [dicts EXCEPT !["caller_extra"] = Put(@, k, v)]
    /\ UNCHANGED <<regVars, depVars, pathVars, cfgVars, lazyVars, store, _config, procCall>>

\* After the call returned, the caller stores v under key k of the mapping
\* it unpacked into the call; the kwargs dict process received is another
\* object, built by the call.
MutateKwargs(k, v) ==
    /\ procCall.pc = "done"
    /\ Get(procCall.kwargs, k, None) /= v
    /\ procCall' = [procCall EXCEPT !.kwargs = Put(@, k, v)]
    /\ UNCHANGED <<regVars, depVars, pathVars, cfgVars, lazyVars, store, _config, dicts>>

\* LoggerAdapter.process, which LazyAdapter inherits: the adapter's own extra
\* dict takes the place of whatever the call passed as extra.
LazyProcess(proxy, kwargs) == Put(kwargs, "extra", Some(proxy.extra))

\* The dict object named from gets the name to, in the heap and in every
\* reference to it: the copy a call makes is an object of its own, with a
\* name no other object has.
Renamed(objs, from, to) ==
    [n \in (DOMAIN objs \ {from}) \cup {to} |->
        LET obj == IF n = to THEN objs[from] ELSE objs[n]
        IN [k \in DOMAIN obj |-> IF obj[k] = Some(from) THEN Some(to) ELSE obj[k]]]

\* Thread t makes a log call on proxy p with the keywords kwargs and, when
\* extra is not None, with that mapping as extra: the proxy's process runs,
\* its logger property is read and the call goes on to the handle, whose
\* process enriches the kwargs it is given. The handle is a registered one.
LazyLog(p, t, kwargs, extra) ==
    /\ Len(lazyCalls) < MaxCalls
    /\ lazies[p].name \in DOMAIN _loggers
    /\ ReadLogger(p)
    /\ \E r \in {processResult(t, _loggers[lazies[p].name],
                               [type |-> "int", repr |-> "42"],
                               LazyProcess(lazies[p],
                                           IF extra = None THEN kwargs
                                           ELSE Put(kwargs, "extra",
                                                    Some("caller_extra"))),
                               dicts, _config)} :
          \E objs \in {Renamed(r.objs, "snapshot",
                               "snapshot_" \o ToString(Len(lazyCalls) + 1))} :
              /\ dicts' = objs
              /\ lazyCalls' = Append(lazyCalls,
                                     [proxy |-> p, thread |-> t,
                                      kwargs |-> kwargs, extraIn |-> extra,
                                      retKwargs |-> r.kwargs,
                                      top |-> objs[r.kwargs["extra"][1]],
                                      snapshot |-> r.objs["snapshot"]])
    /\ UNCHANGED <<store, _config, procCall>>

\* ------------------------------------------------------ specifications

InitRegistry ==
    /\ _loggers = EmptyDict
    /\ adapters = <<>>
    /\ frame = [t \in Threads |-> IdleFrame]
    /\ returned = {}

InitLazy == lazies = <<>> /\ lazyCalls = <<>>

InitDeprecation ==
    /\ fatal_deprecations = FALSE
    /\ depCalls = <<>>
    /\ depFrame = [t \in Threads |-> IdleCall]

NoPathCall ==
    [pc |-> "idle", logfile |-> None, logdir |-> None, binary |-> None,
     binary_name |-> <<>>, result |-> None]

InitPath == pathCall = NoPathCall

\* Unconfigured: the runtime's root logger has no handler and its default
\* threshold.
InitConfig ==
    /\ handlers = <<>>
    /\ rootLevel = "WARNING"
    /\ moduleLevels = EmptyDict
    /\ rootLog = <<>>
    /\ excepthook = None
    /\ cfgRuns = <<>>
    /\ lastRun = None

NoProcCall ==
    [pc |-> "idle", thread |-> 1, handle |-> 0,
     msg |-> [type |-> "unicode", repr |-> ""], kwargs |-> EmptyDict,
     extraIn |-> None,
     retMsg |-> [type |-> "unicode", repr |-> ""], retKwargs |-> EmptyDict]

InitProcess ==
    /\ store = [t \in Threads |-> None]
    /\ _config = [instance_format |-> DefaultTemplate,
                  instance_uuid_format |-> DefaultTemplate]
    /\ dicts = EmptyDict
    /\ procCall = NoProcCall

Init ==
    InitRegistry /\ InitDeprecation /\ InitPath /\ InitConfig /\ InitProcess
    /\ InitLazy

\* Sequential use of the registry: every getLogger call runs to completion.
Next ==
    \E name \in Names, version \in Versions :
        getLogger(name, version) /\ UNCHANGED <<depVars, pathVars, cfgVars, procVars, lazyVars>>

Spec == Init /\ [][Next]_vars

\* Concurrent use of the registry: the steps of getLogger interleave.
NextConc ==
    \/ \E t \in Threads, name \in ConcNames, version \in Versions :
          getLoggerCheck(t, name, version) /\ UNCHANGED <<depVars, pathVars, cfgVars, procVars, lazyVars>>
    \/ \E t \in Threads : getLoggerCreate(t) /\ UNCHANGED <<depVars, pathVars, cfgVars, procVars, lazyVars>>
    \/ \E t \in Threads : getLoggerReturn(t) /\ UNCHANGED <<depVars, pathVars, cfgVars, procVars, lazyVars>>

SpecConc == Init /\ [][NextConc]_vars

\* Deprecation calls on the handles of two registered _loggers.
InitDep ==
    /\ _loggers = Put(Put(EmptyDict, Some("svc"), 1), Some("api"), 2)
    /\ adapters = <<ContextAdapter(Some("svc"), "1.0"),
                    ContextAdapter(Some("api"), "unknown")>>
    /\ frame = [t \in Threads |-> IdleFrame]
    /\ returned = {[name |-> Some("svc"), version |-> "1.0", handle |-> 1],
                   [name |-> Some("api"), version |-> "unknown", handle |-> 2]}
    /\ InitDeprecation
    /\ InitPath
    /\ InitConfig
    /\ InitProcess
    /\ InitLazy

NextDep ==
    \/ \E h \in 1..Len(adapters), msg \in Msgs, args \in ArgTuples :
          deprecated(h, msg, args) /\ UNCHANGED <<pathVars, cfgVars, procVars, lazyVars>>
    \/ \E fatal \in BOOLEAN : register_options(fatal) /\ UNCHANGED <<pathVars, cfgVars, procVars, lazyVars>>

SpecDep == InitDep /\ [][NextDep]_vars

\* Concurrent deprecation calls on the two handles: the steps of deprecated
\* interleave, under the policy the process was started with.
NextDepConc ==
    \/ \E t \in Threads, h \in 1..Len(adapters), msg \in Msgs, args \in ArgTuples :
          deprecatedEnter(t, h, msg, args) /\ UNCHANGED <<pathVars, cfgVars, procVars, lazyVars>>
    \/ \E t \in Threads : deprecatedCheck(t) /\ UNCHANGED <<pathVars, cfgVars, procVars, lazyVars>>
    \/ \E t \in Threads : deprecatedAppend(t) /\ UNCHANGED <<pathVars, cfgVars, procVars, lazyVars>>
    \/ \E t \in Threads : deprecatedWarn(t) /\ UNCHANGED <<pathVars, cfgVars, procVars, lazyVars>>

SpecDepConc == InitDep /\ [][NextDepConc]_vars

\* Path resolution on every combination of arguments.
InitPathCalls ==
    /\ InitRegistry
    /\ InitDeprecation
    /\ InitConfig
    /\ InitProcess
    /\ InitLazy
    /\ \E logfile \in LogFiles, logdir \in LogDirs, binary \in Binaries,
          binary_name \in BinaryNames :
          pathCall = [pc |-> "call", logfile |-> logfile, logdir |-> logdir,
                      binary |-> binary, binary_name |-> binary_name,
                      result |-> None]

SpecPath == InitPathCalls /\ [][ResolvePath]_vars

\* The configurations setup is called with: every combination of the options
\* that select sinks and formatters, at the default threshold ...
SinkConfs ==
    [log_file : {None, Some(<<"a">>)},
     log_dir : {None},
     use_stderr : BOOLEAN,
     publish_errors : BOOLEAN,
     log_format : {None, Some(<<"%", "m">>)},
     debug : {FALSE},
     verbose : {FALSE},
     default_log_levels : {<<<<"q", "=", "W">>>>},
     use_syslog : BOOLEAN,
     use_syslog_rfc_format : {FALSE}]

\* ... and the threshold flags and the syslog variant, logging to a directory.
LevelConfs ==
    [log_file : {None}, log_dir : {Some(<<"/", "d">>)}, use_stderr : {FALSE},
     publish_errors : {FALSE}, log_format : {None}, debug : BOOLEAN,
     verbose : BOOLEAN, default_log_levels : {<<>>},
     use_syslog : {TRUE}, use_syslog_rfc_format : {TRUE}]

\* ... and a second log file, with nothing else asked for.
OtherFileConfs ==
    [log_file : {Some(<<"b">>)}, log_dir : {None}, use_stderr : {FALSE},
     publish_errors : {FALSE}, log_format : {None}, debug : {FALSE},
     verbose : {FALSE}, default_log_levels : {<<>>},
     use_syslog : {FALSE}, use_syslog_rfc_format : {FALSE}]

Confs == SinkConfs \cup LevelConfs \cup OtherFileConfs

\* How the collaborators answer during one run.
Envs ==
    [binary_name : {<<"w">>}, import_ok : BOOLEAN, facility_ok : BOOLEAN,
     socket_ok : BOOLEAN]

\* What matters of env under conf: an answer nobody asks for is fixed.
Relevant(conf, env) ==
    /\ (~conf.publish_errors => env.import_ok)
    /\ (~conf.use_syslog => env.facility_ok /\ env.socket_ok)
    /\ (~env.facility_ok => env.socket_ok)

\* Handler lists an external logging configuration file installs.
FileHandlers ==
    {<<Handler("StreamHandler", None, "stderr", "NOTSET")>>,
     <<Handler("StreamHandler", None, "stderr", "NOTSET"),
       Handler("WatchedFileHandler", Some(<<"x">>), "", "NOTSET")>>}

NextConfig ==
    \/ \E conf \in Confs, env \in Envs :
          Relevant(conf, env) /\ setup(conf, "svc", "1.0", env)
    \/ \E file_ok \in BOOLEAN, hs \in FileHandlers :
          setupAppend("svc", file_ok, hs)

SpecConfig == Init /\ [][NextConfig]_vars

\* Enrichment of one call, on every combination of arguments: two loggers
\* are registered, each thread has its own stored context or none, and the
\* caller has prepared the keyword dict and, if it passes one, the extra dict.
InitProcessCalls ==
    /\ _loggers = Put(Put(EmptyDict, Some("svc"), 1), None, 2)
    /\ adapters = <<ContextAdapter(Some("svc"), "1.0"),
                    ContextAdapter(None, "unknown")>>
    /\ frame = [t \in Threads |-> IdleFrame]
    /\ returned = {[name |-> Some("svc"), version |-> "1.0", handle |-> 1],
                   [name |-> None, version |-> "unknown", handle |-> 2]}
    /\ InitDeprecation
    /\ InitPath
    /\ InitConfig
    /\ InitLazy
    /\ store \in [Threads -> {None} \cup {Some(c) : c \in Contexts}]
    /\ _config \in Configs
    /\ \E t \in Threads, h \in 1..2, kw \in KeywordDicts,
          extra \in {None} \cup {Some(e) : e \in CallerExtras} :
          /\ dicts = IF extra = None THEN EmptyDict
                     ELSE Put(EmptyDict, "caller_extra", extra[1])
          /\ procCall = [NoProcCall EXCEPT
                            !.pc = "call", !.thread = t, !.handle = h,
                            !.msg = [type |-> "int", repr |-> "42"],
                            !.extraIn = extra,
                            !.kwargs = IF extra = None THEN kw
                                       ELSE Put(kw, "extra", Some("caller_extra"))]

SpecProcess == InitProcessCalls /\ [][process]_vars

\* One enrichment call by the first thread, after which the caller goes on
\* to change the mappings it passed.
InitCopy ==
    /\ InitProcessCalls
    /\ procCall.thread = 1
    /\ \A t \in Threads : t /= 1 => store[t] = None
    /\ _config = [instance_format |-> DefaultTemplate,
                  instance_uuid_format |-> DefaultTemplate]

LateKeys == {"user_identity", "tag"}

NextCopy ==
    \/ process
    \/ \E k \in LateKeys : MutateExtra(k, Some("late"))
    \/ \E k \in LateKeys : MutateKwargs(k, Some("late"))

SpecCopy == InitCopy /\ [][NextCopy]_vars

\* Proxies are constructed and used while other callers go to the registry
\* themselves, every operation running to completion.
NextLazy ==
    \/ \E name \in ConcNames, version \in Versions :
          getLogger(name, version) /\ UNCHANGED <<depVars, pathVars, cfgVars, procVars, lazyVars>>
    \/ \E name \in ConcNames, version \in Versions :
          getLazyLogger(name, version) /\ UNCHANGED <<depVars, pathVars, cfgVars>>
    \/ \E p \in 1..Len(lazies) :
          logger(p) /\ UNCHANGED <<depVars, pathVars, cfgVars>>

SpecLazy == Init /\ [][NextLazy]_vars

\* The keyword dicts and extra mappings of the log calls made through proxies.
LazyKeywordDicts ==
    {EmptyDict,
     Put(EmptyDict, "context", Some("ctx_instance")),
     Put(EmptyDict, "user_identity", Some("bob"))}

LazyExtras == {None, Some(Put(EmptyDict, "tag", Some("x")))}

\* Log calls through proxies for a registered name: the first thread has a
\* stored context, the others have none.
InitLazyCalls ==
    /\ _loggers = Put(EmptyDict, Some("svc"), 1)
    /\ adapters = <<ContextAdapter(Some("svc"), "1.0")>>
    /\ frame = [t \in Threads |-> IdleFrame]
    /\ returned = {[name |-> Some("svc"), version |-> "1.0", handle |-> 1]}
    /\ InitDeprecation
    /\ InitPath
    /\ InitConfig
    /\ InitLazy
    /\ store = [t \in Threads |-> IF t = 1 THEN Some("ctx_user") ELSE None]
    /\ _config = [instance_format |-> DefaultTemplate,
                  instance_uuid_format |-> DefaultTemplate]
    /\ dicts = EmptyDict
    /\ procCall = NoProcCall

NextLazyCalls ==
    \/ getLazyLogger(Some("svc"), "1.0") /\ UNCHANGED <<depVars, pathVars, cfgVars>>
    \/ \E p \in 1..Len(lazies), t \in Threads, kw \in LazyKeywordDicts,
          extra \in LazyExtras :
          LazyLog(p, t, kw, extra) /\ UNCHANGED <<depVars, pathVars, cfgVars>>

SpecLazyCalls == InitLazyCalls /\ [][NextLazyCalls]_vars

\* ------------------------------------------------------------- claims

\* C1. Registry identity (sequential): every completed getLogger(name, ...)
\* call returned the handle the first call for that name created; the
\* registry maps each name to that one handle, no second handle is ever
\* constructed for a name, and a created entry stays in the registry.
C1_RegistryIdentity ==
    /\ \A i, j \in 1..Len(adapters) :
          adapters[i].project = adapters[j].project => i = j
    /\ \A i \in 1..Len(adapters) :
          /\ adapters[i].project \in DOMAIN _loggers
          /\ _loggers[adapters[i].project] = i
    /\ \A r \in returned :
          /\ r.name \in DOMAIN _loggers
          /\ _loggers[r.name] = r.handle
          /\ adapters[r.handle].project = r.name

\* A later call for a registered name, made with another version, got the
\* handle of the first call, while a second name has its own handle.
C1_Witness ==
    /\ Len(adapters) >= 2
    /\ \E r \in returned :
          r.handle = 1 /\ adapters[1].version /= r.version

\* C2. Registry identity (concurrent): all completed getLogger calls for one
\* name returned the same handle.
C2_ConcurrentIdentity ==
    \A r1, r2 \in returned : r1.name = r2.name => r1.handle = r2.handle

\* C3. Deprecation de-duplication: as long as the fatal policy has been off
\* for every call so far, a call logs a warning iff no earlier call on the
\* same handle had the same template and an equal argument tuple, and
\* otherwise logs nothing.
C3_Dedup ==
    \A i \in 1..Len(depCalls) :
        (\A j \in 1..i : ~depCalls[j].fatal) =>
            LET repeat == \E j \in 1..(i - 1) :
                              /\ depCalls[j].handle = depCalls[i].handle
                              /\ depCalls[j].msg = depCalls[i].msg
                              /\ depCalls[j].args = depCalls[i].args
            IN /\ depCalls[i].level = (IF repeat THEN "NONE" ELSE "WARNING")
               /\ depCalls[i].outcome = "returned"

\* One handle saw a pair twice (second silent) and the same template with
\* other arguments (logged).
C3_Witness ==
    /\ Len(depCalls) = 3
    /\ \A i \in 1..3 : ~depCalls[i].fatal /\ depCalls[i].handle = depCalls[1].handle
    /\ \A i \in 1..3 : depCalls[i].msg = depCalls[1].msg
    /\ depCalls[2].args = depCalls[1].args
    /\ depCalls[3].args /= depCalls[1].args
    /\ depCalls[2].level = "NONE"
    /\ depCalls[3].level = "WARNING"

\* C4. Fatal-deprecation mode: a deprecated call made while the policy is set
\* logs at critical severity and ends by raising DeprecatedConfig, whatever
\* the de-duplication table holds.
C4_FatalAlwaysRaises ==
    \A i \in 1..Len(depCalls) :
        depCalls[i].fatal =>
            /\ depCalls[i].level = "CRITICAL"
            /\ depCalls[i].outcome = "DeprecatedConfig"

\* A fatal call for a pair that an earlier non-fatal call had recorded.
C4_Witness ==
    \E i, j \in 1..Len(depCalls) :
        /\ j < i
        /\ ~depCalls[j].fatal /\ depCalls[j].level = "WARNING"
        /\ depCalls[i].fatal /\ depCalls[i].outcome = "DeprecatedConfig"
        /\ depCalls[i].handle = depCalls[j].handle
        /\ depCalls[i].msg = depCalls[j].msg
        /\ depCalls[i].args = depCalls[j].args

\* C5. Reconfiguration is never additive: once a configurator run has
\* completed, every handler on the root logger was constructed by that run.
C5_NeverAdditive ==
    (/\ Len(cfgRuns) > 0
     /\ cfgRuns[Len(cfgRuns)].via = "conf"
     /\ ~cfgRuns[Len(cfgRuns)].raised)
    => \A i \in 1..Len(handlers) : handlers[i].fresh

\* The file sinks among the root logger's handlers.
FileSinks == {i \in 1..Len(handlers) : handlers[i].kind = "WatchedFileHandler"}

\* The first two setup calls both ran the configurator, on different paths.
TwoRunsTwoPaths ==
    /\ Len(cfgRuns) = 2
    /\ cfgRuns[1].via = "conf" /\ cfgRuns[2].via = "conf"
    /\ TruthyStr(cfgRuns[1].logpath) /\ TruthyStr(cfgRuns[2].logpath)
    /\ cfgRuns[1].logpath /= cfgRuns[2].logpath

\* C6. From the unconfigured state, two configurator runs with different
\* resolved file paths leave exactly one file sink, bound to the second path.
C6_OneFileSink ==
    TwoRunsTwoPaths =>
        /\ Cardinality(FileSinks) = 1
        /\ \A i \in FileSinks : handlers[i].path = cfgRuns[2].logpath

\* Two such runs, after which a sink of the first run is still attached
\* beside the single file sink.
C6_Witness ==
    /\ TwoRunsTwoPaths
    /\ Cardinality(FileSinks) = 1
    /\ \E i \in 1..Len(handlers) : ~handlers[i].fresh

\* The handlers the last configurator run constructed, by kind.
FreshSinks == {i \in 1..Len(handlers) : handlers[i].fresh}

FreshFiles == {i \in FreshSinks : handlers[i].kind = "WatchedFileHandler"}

FreshConsoles ==
    {i \in FreshSinks : handlers[i].kind \in {"ColorHandler", "StreamHandler"}}

\* C7. Sink selection by one configurator run: it attaches a file sink iff
\* the log path resolves (bound to that path); it attaches a console sink iff
\* use_stderr is set or no path resolves, the colour handler on stderr when
\* use_stderr is set and a plain stdout handler otherwise; and it attaches at
\* least one sink.
C7_SinkSelection ==
    (Len(cfgRuns) > 0 /\ cfgRuns[Len(cfgRuns)].via = "conf") =>
        LET run == cfgRuns[Len(cfgRuns)]
        IN /\ (FreshFiles /= {}) <=> TruthyStr(run.logpath)
           /\ Cardinality(FreshFiles) <= 1
           /\ \A i \in FreshFiles : handlers[i].path = run.logpath
           /\ (FreshConsoles /= {}) <=> (run.use_stderr \/ ~TruthyStr(run.logpath))
           /\ Cardinality(FreshConsoles) <= 1
           /\ \A i \in FreshConsoles :
                 IF run.use_stderr
                 THEN handlers[i].kind = "ColorHandler"
                      /\ handlers[i].stream = "stderr"
                 ELSE handlers[i].kind = "StreamHandler"
                      /\ handlers[i].stream = "stdout"
           /\ FreshSinks /= {}

\* A run with a resolved path and use_stderr off attached a file sink and no
\* console sink.
C7_Witness ==
    /\ Len(cfgRuns) > 0
    /\ cfgRuns[Len(cfgRuns)].via = "conf"
    /\ TruthyStr(cfgRuns[Len(cfgRuns)].logpath)
    /\ ~cfgRuns[Len(cfgRuns)].use_stderr
    /\ FreshFiles /= {}
    /\ FreshConsoles = {}

VarLogApp == <<"/", "v", "a", "r", "/", "l", "o", "g", "/", "a", "p", "p">>

VarLogAppWorkerLog ==
    <<"/", "v", "a", "r", "/", "l", "o", "g", "/", "a", "p", "p", "/",
      "w", "o", "r", "k", "e", "r", ".", "l", "o", "g">>

\* C8. Log path resolution, log_file and log_dir counting as set when they
\* are neither None nor empty: log_file alone when only log_file is set; when
\* both are set, log_dir and log_file joined as paths (one separator between
\* them, and an absolute log_file standing by itself); log_dir joined with
\* '<binary>.log' when only log_dir is set, so that /var/log/app and worker
\* give /var/log/app/worker.log; no path when neither is set.
C8_LogPath ==
    pathCall.pc = "done" =>
        LET f == pathCall.logfile
            d == pathCall.logdir
            fset == f /= None /\ Len(f[1]) > 0
            dset == d /= None /\ Len(d[1]) > 0
            sep == IF d[1][Len(d[1])] = "/" THEN <<>> ELSE <<"/">>
            bin == IF pathCall.binary /= None /\ Len(pathCall.binary[1]) > 0
                   THEN pathCall.binary[1] ELSE pathCall.binary_name
        IN /\ (fset /\ ~dset) => pathCall.result = f
           /\ (fset /\ dset) =>
                 pathCall.result =
                     IF f[1][1] = "/" THEN f ELSE Some(d[1] \o sep \o f[1])
           /\ (~fset /\ dset) =>
                 pathCall.result = Some(d[1] \o sep \o bin \o <<".", "l", "o", "g">>)
           /\ (~fset /\ ~dset) => pathCall.result = None
           /\ (~fset /\ d = Some(VarLogApp) /\ bin = <<"w", "o", "r", "k", "e", "r">>)
                 => pathCall.result = Some(VarLogAppWorkerLog)

\* log_dir=/var/log/app with no log_file and binary worker has been resolved.
C8_Witness ==
    /\ pathCall.pc = "done"
    /\ pathCall.logfile = None
    /\ pathCall.logdir = Some(VarLogApp)
    /\ pathCall.binary = None
    /\ pathCall.binary_name = <<"w", "o", "r", "k", "e", "r">>
    /\ pathCall.result = Some(VarLogAppWorkerLog)

\* The enrichment mapping process returned and the snapshot under its extra key.
RetExtra == dicts[procCall.retKwargs["extra"][1]]

RetSnapshot == dicts[RetExtra["extra"][1]]

\* C9. Whatever the context and the keyword arguments, the mapping process
\* returns carries the adapter's own project and version, at its top level
\* and in the snapshot under its extra key.
C9_ProjectVersionBound ==
    procCall.pc = "done" =>
        LET adapter == adapters[procCall.handle]
        IN /\ RetExtra["project"] = adapter.project
           /\ RetExtra["version"] = Some(adapter.version)
           /\ RetSnapshot["project"] = adapter.project
           /\ RetSnapshot["version"] = Some(adapter.version)

\* The call had an explicit context projecting project and version keys and a
\* caller extra holding other values for them.
C9_Witness ==
    /\ procCall.pc = "done"
    /\ procCall.handle = 1
    /\ Get(procCall.kwargs, "context", None) = Some("ctx_user")
    /\ procCall.extraIn /= None
    /\ Get(procCall.extraIn[1], "project", None) = Some("spoof")
    /\ RetSnapshot["project"] = Some("svc")

\* What the caller of process supplied.
InstanceArg == Get(procCall.kwargs, "instance", None)

UuidViaKeyword == Get(procCall.kwargs, "instance_uuid", None)

UuidViaExtra ==
    IF procCall.extraIn = None THEN None
    ELSE Get(procCall.extraIn[1], "instance_uuid", None)

\* The context process resolves: the explicit one, else the thread's own.
ResolvedContext ==
    IF Get(procCall.kwargs, "context", None) /= None
    THEN procCall.kwargs["context"]
    ELSE store[procCall.thread]

\* The instance_uuid in the extra mapping once the context is merged into it.
UuidAfterMerge ==
    IF ResolvedContext /= None
       /\ "instance_uuid" \in DOMAIN ContextFields[ResolvedContext[1]]
    THEN ContextFields[ResolvedContext[1]]["instance_uuid"]
    ELSE UuidViaExtra

\* C10 as stated: with a non-empty instance the field is the instance
\* template applied to it; otherwise, with an instance_uuid supplied via extra
\* or via keyword, the uuid template applied to one of those; otherwise the
\* empty string.
C10_AsStated ==
    procCall.pc = "done" =>
        IF Truthy(InstanceArg)
        THEN RetExtra["instance"] =
                 Some(Format(_config.instance_format, InstanceArg[1]))
        ELSE IF Truthy(UuidViaExtra) \/ Truthy(UuidViaKeyword)
        THEN \E u \in {UuidViaExtra, UuidViaKeyword} :
                 /\ Truthy(u)
                 /\ RetExtra["instance"] =
                        Some(Format(_config.instance_uuid_format, u[1]))
        ELSE RetExtra["instance"] = Some("")

\* C10, amended. With a non-empty instance the field is the instance template
\* applied to it, whatever instance_uuid is around; otherwise the uuid
\* template is applied to the non-empty instance_uuid found in the extra
\* mapping after the resolved context's fields were merged into it (the
\* context's value replacing the caller's), or else to the one given by
\* keyword; with none of these the field is the empty string.
C10_InstancePrecedence ==
    procCall.pc = "done" =>
        RetExtra["instance"] =
            IF Truthy(InstanceArg)
            THEN Some(Format(_config.instance_format, InstanceArg[1]))
            ELSE IF Truthy(UuidAfterMerge)
            THEN Some(Format(_config.instance_uuid_format, UuidAfterMerge[1]))
            ELSE IF Truthy(UuidViaKeyword)
            THEN Some(Format(_config.instance_uuid_format, UuidViaKeyword[1]))
            ELSE Some("")

\* An instance was supplied together with an instance_uuid in extra and one
\* by keyword, under templates that tell the two sources apart.
C10_Witness ==
    /\ procCall.pc = "done"
    /\ Truthy(InstanceArg)
    /\ Truthy(UuidViaExtra)
    /\ Truthy(UuidViaKeyword)
    /\ _config.instance_format /= _config.instance_uuid_format
    /\ RetExtra["instance"] = Some("[instance: uuid-1] ")

\* What the caller's extra held when the call was made.
ExtraArg == IF procCall.extraIn = None THEN EmptyDict ELSE procCall.extraIn[1]

\* The keys process assigns after the context is merged.
AssignedKeys == {"instance", "project", "version", "extra"}

\* C11. The context fields in the mapping process returns are those of the
\* explicit context keyword when it is given and not None, else those of the
\* calling thread's stored context; with neither, the call returns and the
\* mapping holds the caller's extra and the keys process itself sets, and
\* nothing else. Whatever another thread has stored never shows.
C11_ContextResolution ==
    procCall.pc = "done" =>
        LET fields == IF ResolvedContext = None THEN EmptyDict
                      ELSE ContextFields[ResolvedContext[1]]
        IN /\ \A k \in DOMAIN fields \ AssignedKeys : RetExtra[k] = fields[k]
           /\ DOMAIN RetExtra = DOMAIN ExtraArg \cup DOMAIN fields
                                   \cup AssignedKeys \cup {"user_identity"}
           /\ \A k \in DOMAIN ExtraArg \ (DOMAIN fields \cup AssignedKeys) :
                  RetExtra[k] = ExtraArg[k]
           /\ "user_identity" \notin DOMAIN ExtraArg \cup DOMAIN fields =>
                  RetExtra["user_identity"] =
                      Get(procCall.kwargs, "user_identity", None)

\* A thread with no stored context made a call without a context keyword
\* while the other thread had a context stored, and got none of its fields.
C11_Witness ==
    /\ procCall.pc = "done"
    /\ "context" \notin DOMAIN procCall.kwargs
    /\ store[procCall.thread] = None
    /\ \E u \in Threads : store[u] = Some("ctx_instance")
    /\ "request_id" \notin DOMAIN RetExtra

\* A call with an explicit context made by a thread that has another context
\* stored carries the explicit context's fields.
C11_WitnessExplicit ==
    /\ procCall.pc = "done"
    /\ Get(procCall.kwargs, "context", None) = Some("ctx_instance")
    /\ store[procCall.thread] = Some("ctx_user")
    /\ RetExtra["request_id"] = Some("req-1")
    /\ RetExtra["user_identity"] /= Some("alice")


\* C12. Once process has returned, a change the caller makes to the mappings
\* it passed changes neither the top-level keys of the returned enrichment
\* mapping nor the snapshot under its extra key.
C12_CopyLaw ==
    [][procCall.pc = "done" =>
          /\ RetExtra' = RetExtra
          /\ RetSnapshot' = RetSnapshot]_vars

\* The part of C12 about the snapshot alone.
C12_SnapshotKept ==
    [][procCall.pc = "done" => RetSnapshot' = RetSnapshot]_vars


\* What holds of every proxy in every state: it has made no getLogger call
\* while it holds no handle and one once it holds one; nothing was delegated
\* before that; the handle it holds is the one the registry has under its
\* name, the one every getLogger call for that name returned, and the only
\* one its operations were delegated to.
C13_ProxyState ==
    \A p \in 1..Len(lazies) :
        LET proxy == lazies[p]
        IN IF proxy._logger = None
           THEN proxy.lookups = 0 /\ proxy.uses = 0 /\ proxy.used = {}
           ELSE /\ proxy.lookups = 1
                /\ proxy.uses >= 1
                /\ proxy.used = {proxy._logger[1]}
                /\ proxy.name \in DOMAIN _loggers
                /\ _loggers[proxy.name] = proxy._logger[1]
                /\ \A r \in returned :
                      r.name = proxy.name => r.handle = proxy._logger[1]

\* What holds of every step: constructing a proxy leaves the registry and
\* the history of getLogger calls as they were; the first operation on a
\* proxy makes it hold what the registry has under its name; a proxy that
\* holds a handle keeps it and makes no further getLogger call.
C13_ProxyStep ==
    /\ Len(lazies') > Len(lazies) =>
          /\ UNCHANGED <<_loggers, adapters, returned>>
          /\ lazies'[Len(lazies')]._logger = None
    /\ \A p \in 1..Len(lazies) :
          IF lazies[p]._logger = None
          THEN lazies'[p].uses > 0 =>
                  /\ lazies'[p].lookups = 1
                  /\ lazies'[p]._logger = Some(_loggers'[lazies[p].name])
          ELSE /\ lazies'[p]._logger = lazies[p]._logger
               /\ lazies'[p].lookups = lazies[p].lookups

\* C13. getLazyLogger creates no registry entry and calls getLogger not at
\* all; the first operation on the proxy resolves the handle through
\* getLogger exactly once; from then on the proxy delegates to that handle,
\* which is the one getLogger returns for the name to every other caller.
C13_LazyProxy == []C13_ProxyState /\ [][C13_ProxyStep]_vars

\* A proxy was constructed for a name, another caller then registered the
\* name with another version, and two operations on the proxy went to that
\* caller's handle; a second proxy is still unresolved.
C13_Witness ==
    /\ Len(lazies) = 2
    /\ lazies[1].uses >= 2
    /\ lazies[1]._logger /= None
    /\ adapters[lazies[1]._logger[1]].version /= lazies[1].version
    /\ \E r \in returned :
          r.name = lazies[1].name /\ r.version /= lazies[1].version
    /\ lazies[2]._logger = None
    /\ lazies[2].name \notin DOMAIN _loggers


\* The warnings logged so far for template msg with tuple args on handle h.
Warnings(h, msg, args) ==
    Cardinality({i \in 1..Len(depCalls) :
                    /\ depCalls[i].handle = h
                    /\ depCalls[i].msg = msg
                    /\ depCalls[i].args = args
                    /\ depCalls[i].level = "WARNING"})

\* Thread t is past the suppression check of a call for (h, msg, args).
PassedCheck(t, h, msg, args) ==
    /\ depFrame[t].pc \in {"append", "warn"}
    /\ depFrame[t].handle = h
    /\ depFrame[t].msg = msg
    /\ depFrame[t].args = args

\* C14 as stated: of two threads making the first call for the same template
\* and tuple on one handle, with the policy off, not both pass the
\* suppression check, and at most one warning is logged for the pair.
C14_AtMostOneWarning ==
    \A h \in 1..Len(adapters), msg \in Msgs, args \in ArgTuples :
        /\ Warnings(h, msg, args) <= 1
        /\ \A t, u \in Threads :
              PassedCheck(t, h, msg, args) /\ PassedCheck(u, h, msg, args)
                  => t = u

\* C14, amended. Calls whose check and append steps interleave may each pass
\* the check and each log one warning, so a pair is logged at most once per
\* thread taking part; a call that finds the pair recorded when it gets hold
\* of the template's list passes no check and logs nothing.
C14_BoundedDuplicates ==
    /\ \A h \in 1..Len(adapters), msg \in Msgs, args \in ArgTuples :
          Warnings(h, msg, args) <= NThreads
    /\ \A t \in Threads :
          depFrame[t].pc \in {"append", "warn"} => ~depFrame[t].seen

\* Two threads raced on a pair and each logged a warning; a call made for
\* the pair after that returned without logging.
C14_Witness ==
    /\ Len(depCalls) = 3
    /\ \A i \in 1..3 :
          /\ depCalls[i].handle = 1
          /\ depCalls[i].msg = "%s is deprecated"
          /\ depCalls[i].args = <<"opt_a">>
    /\ depCalls[1].level = "WARNING"
    /\ depCalls[2].level = "WARNING"
    /\ depCalls[3].level = "NONE"


\* The configurator ran last, with a conf, and returned normally.
NormalRun == lastRun /= None /\ ~Raised(rootLog)

SyslogKinds == {"SysLogHandler", "RFCSysLogHandler"}

\* The formatter the conf of the last run asks for, setup having been called
\* for product svc at version 1.0.
AskedFormatter ==
    IF TruthyStr(lastRun[1].conf.log_format)
    THEN [cls |-> "Formatter", fmt |-> lastRun[1].conf.log_format,
          project |-> None, version |-> ""]
    ELSE [cls |-> "ContextFormatter", fmt |-> None, project |-> Some("svc"),
          version |-> "1.0"]

\* Handler number i was attached by the last run's syslog step.
SyslogOfRun(i) == handlers[i].fresh /\ handlers[i].kind \in SyslogKinds

\* C15 as stated: after a normal run every attached sink, the syslog sink
\* included, has the formatter the run's conf asks for.
C15_AsStated ==
    NormalRun =>
        \A i \in 1..Len(handlers) : handlers[i].formatter = AskedFormatter

\* What the run does instead: every sink that was attached when the
\* formatter step ran (file, console, error publisher, and any sink left
\* over from an earlier run) has the formatter the run's conf asks for; the
\* syslog sink the run attaches afterwards has no formatter set.
C15_FormattedBeforeSyslog ==
    NormalRun =>
        \A i \in 1..Len(handlers) :
            handlers[i].formatter =
                IF SyslogOfRun(i) THEN NoFormatter ELSE AskedFormatter

\* A normal run attached a file sink, a console sink, an error publisher and
\* a syslog sink: three carry the context formatter, the syslog sink none.
FourSinksOneBare ==
    /\ NormalRun
    /\ Len(handlers) = 4
    /\ \A i \in 1..4 : handlers[i].fresh
    /\ handlers[1].kind = "WatchedFileHandler"
    /\ handlers[2].kind = "ColorHandler"
    /\ handlers[3].kind = "PublishErrorsHandler"
    /\ handlers[3].formatter.cls = "ContextFormatter"
    /\ handlers[4].kind = "SysLogHandler"
    /\ handlers[4].formatter = NoFormatter

\* The deprecation notices the last run logged.
Notices ==
    Cardinality({i \in 1..Len(rootLog) :
                    rootLog[i] = "INFO log_format deprecated"})

\* C16. A normal run with log_format configured sets that format on every
\* sink attached when the formatter step runs, and logs the deprecation
\* notice once, however many sinks there are.
C16_NoticeOnce ==
    NormalRun /\ TruthyStr(lastRun[1].conf.log_format) =>
        /\ \A i \in 1..Len(handlers) :
              ~SyslogOfRun(i) =>
                  handlers[i].formatter =
                      [cls |-> "Formatter", fmt |-> lastRun[1].conf.log_format,
                       project |-> None, version |-> ""]
        /\ Notices = 1

\* The syslog step of the last run failed on the socket.
SyslogFailed ==
    /\ lastRun /= None
    /\ lastRun[1].conf.use_syslog
    /\ lastRun[1].env.facility_ok
    /\ ~lastRun[1].env.socket_ok
    /\ (lastRun[1].conf.publish_errors => lastRun[1].env.import_ok)

\* C17. A setup call whose syslog step fails on the socket leaves what the
\* same call with use_syslog off would have left (the sinks, their
\* formatters, the root threshold and the module thresholds), having logged
\* one more record, at error severity; it attaches no syslog sink, returns
\* normally and installs the excepthook.
C17_SyslogDegradation ==
    [][cfgRuns' /= cfgRuns /\ SyslogFailed' =>
          LET conf == lastRun'[1].conf
              without == _setup_logging_from_conf(
                             handlers, [conf EXCEPT !.use_syslog = FALSE],
                             Some("svc"), "1.0", lastRun'[1].env)
          IN /\ handlers' = without.handlers
             /\ rootLevel' = without.level
             /\ moduleLevels' = without.moduleLevels
             /\ rootLog' = Append(without.log,
                                  "ERROR Unable to add syslog handler")
             /\ \A i \in 1..Len(handlers') :
                   handlers'[i].fresh =>
                       /\ handlers'[i].kind \notin SyslogKinds
                       /\ handlers'[i].formatter /= NoFormatter
             /\ ~cfgRuns'[Len(cfgRuns')].raised
             /\ excepthook' = Some("svc")]_vars

\* The syslog step failed in a run that had attached a file sink and an
\* error publisher with a raw format: the run logged the two notices and
\* then the error, both sinks are in place and the hook is set.
C17_Witness ==
    /\ SyslogFailed
    /\ Len(handlers) = 2
    /\ handlers[1].kind = "WatchedFileHandler"
    /\ handlers[2].kind = "PublishErrorsHandler"
    /\ handlers[2].formatter.cls = "Formatter"
    /\ rootLog[Len(rootLog)] = "ERROR Unable to add syslog handler"
    /\ Len(rootLog) = 3
    /\ excepthook = Some("svc")
    /\ ~cfgRuns[Len(cfgRuns)].raised


\* The keywords process is to move into the enrichment mapping.
ConsumedKeys == {"context", "instance", "instance_uuid", "user_identity"}

\* C18. Whatever combination of context, instance, instance_uuid,
\* user_identity and extra a call passes, the kwargs process returns hold
\* none of the keys context, instance, instance_uuid and user_identity.
C18_KeywordsConsumed ==
    procCall.pc = "done" => DOMAIN procCall.retKwargs \cap ConsumedKeys = {}

\* What holds instead: only instance_uuid can stay behind, and it does when
\* the extra mapping holds a non-empty instance_uuid of its own.
C18_OnlyUuidLeft ==
    procCall.pc = "done" =>
        DOMAIN procCall.retKwargs \cap ConsumedKeys =
            IF Truthy(UuidAfterMerge) /\ "instance_uuid" \in DOMAIN procCall.kwargs
            THEN {"instance_uuid"} ELSE {}


\* Calls i and j were made on one handle with one template and equal tuples.
SamePair(i, j) ==
    /\ depCalls[j].handle = depCalls[i].handle
    /\ depCalls[j].msg = depCalls[i].msg
    /\ depCalls[j].args = depCalls[i].args

\* Every call made with the policy off logs a warning iff no earlier call
\* made with the policy off had the same pair, whatever calls were made with
\* the policy on in between.
C20_FatalCallsInvisible ==
    \A i \in 1..Len(depCalls) :
        ~depCalls[i].fatal =>
            depCalls[i].level =
                IF \E j \in 1..(i - 1) : ~depCalls[j].fatal /\ SamePair(i, j)
                THEN "NONE" ELSE "WARNING"

\* A call made with the policy on leaves every de-duplication table as it was.
C20_FatalCallKeepsTables ==
    Len(depCalls') > Len(depCalls) /\ depCalls'[Len(depCalls')].fatal =>
        adapters' = adapters

\* C20. A deprecated call under the fatal policy leaves the handle's table
\* unchanged; so once the policy is off again the first call with the same
\* pair still logs a warning, and a pair recorded before the fatal call
\* stays suppressed.
C20_FatalLeavesTable ==
    []C20_FatalCallsInvisible /\ [][C20_FatalCallKeepsTables]_vars

\* A pair was first used in a fatal call; with the policy switched off the
\* next call with the pair logged a warning and the one after it nothing.
C20_Witness ==
    /\ Len(depCalls) = 3
    /\ ~fatal_deprecations
    /\ SamePair(1, 2) /\ SamePair(1, 3)
    /\ depCalls[1].fatal /\ depCalls[1].outcome = "DeprecatedConfig"
    /\ ~depCalls[2].fatal /\ depCalls[2].level = "WARNING"
    /\ ~depCalls[3].fatal /\ depCalls[3].level = "NONE"
    /\ adapters[depCalls[1].handle].sent[depCalls[1].msg] = <<depCalls[1].args>>

\* A pair was recorded, then used in a fatal call, and with the policy off
\* again the next call with the pair logged nothing.
RecordedThenFatalThenSilent ==
    /\ Len(depCalls) = 3
    /\ SamePair(1, 2) /\ SamePair(1, 3)
    /\ ~depCalls[1].fatal /\ depCalls[1].level = "WARNING"
    /\ depCalls[2].fatal
    /\ ~depCalls[3].fatal /\ depCalls[3].level = "NONE"


\* What the call recorded as c gives when made on the real handle itself:
\* the enrichment mapping and the snapshot under its extra key.
Direct(c) ==
    LET r == processResult(c.thread, _loggers[lazies[c.proxy].name],
                           [type |-> "int", repr |-> "42"],
                           IF c.extraIn = None THEN c.kwargs
                           ELSE Put(c.kwargs, "extra", Some("caller_extra")),
                           IF c.extraIn = None THEN EmptyDict
                           ELSE Put(EmptyDict, "caller_extra", c.extraIn[1]),
                           _config)
    IN [top |-> r.objs[r.kwargs["extra"][1]], snapshot |-> r.objs["snapshot"]]

\* A mapping without the reference it holds under its extra key.
Fields(mapping) == Without(mapping, "extra")

\* C19. The mapping produced for a log call made through a lazy proxy equals
\* the mapping the same call produces on the real handle, at the top level
\* and in the snapshot: nothing is left over from earlier calls through the
\* proxy and the caller's extras are kept.
C19_ProxyEquivalence ==
    \A i \in 1..Len(lazyCalls) :
        /\ Fields(lazyCalls[i].top) = Fields(Direct(lazyCalls[i]).top)
        /\ Fields(lazyCalls[i].snapshot) = Fields(Direct(lazyCalls[i]).snapshot)

\* The part of C19 about the caller's extras.
C19_ExtrasKept ==
    \A i \in 1..Len(lazyCalls) :
        lazyCalls[i].extraIn /= None =>
            \A k \in DOMAIN lazyCalls[i].extraIn[1] :
                /\ k \in DOMAIN lazyCalls[i].top
                /\ lazyCalls[i].top[k] = lazyCalls[i].extraIn[1][k]

\* The part of C19 about left-overs: a call with no context, made by a thread
\* with none stored, carries no field of a context.
C19_NoLeftOver ==
    \A i \in 1..Len(lazyCalls) :
        /\ "context" \notin DOMAIN lazyCalls[i].kwargs
        /\ store[lazyCalls[i].thread] = None
        => /\ "request_id" \notin DOMAIN lazyCalls[i].top
           /\ "instance_uuid" \notin DOMAIN lazyCalls[i].top
           /\ lazyCalls[i].top["user_identity"] =
                  Get(lazyCalls[i].kwargs, "user_identity", None)

====
